---- MODULE Spec2Model ----
(***************************************************************************)
(* Model of the leaderboard service (package services) and of its snapshot *)
(* (package snapshot): one writer goroutine that drains updateChan into     *)
(* writerRatings and republishes an immutable LeaderboardSnapshot through   *)
(* the atomic cell currentSnapshot, reader goroutines that load the cell,   *)
(* and the producers that offer RatingUpdate records to the channel.        *)
(*                                                                         *)
(* Ratings, users and the channel capacity are scaled down; the arrays     *)
(* RatingCount and PrefixHigher are indexed 0..MaxRating as in the source   *)
(* ([5001]int with MaxRating = 5000).  Wall-clock values (GeneratedAt, the *)
(* ticker period, the simulator's sleep) are not modelled: a tick or a wake *)
(* may happen at any moment.                                               *)
(***************************************************************************)
EXTENDS Integers, Sequences, FiniteSets, TLC

\* ---------------------------------------------------------------- bounds
\* services.MinRating (100), scaled
MinRating == 1
\* services.MaxRating (5000), scaled; also the last index of the arrays
MaxRating == 2
\* services.InitialUsers (10000), scaled
InitialUsers == 2
\* services.UpdateBufferSize (10000), scaled
UpdateBufferSize == 1
\* number of reader goroutines
NumReaders == 1
\* number of user ids a test hands to SnapshotBuilder.AddUser
BuildUsers == 3
\* how far beyond the arrays the arguments of GetRank go
ArgSpan == 2
\* number of users of a test service (createTestService has 10)
TestUsers == 3
\* the default limit of GetLeaderboard (100), scaled
DefaultLimit == 2
\* number of service instances in one process (the tests create many)
NumServices == 2

\* ---------------------------------------------------------------- values
NoSnap == -1

\* keys of s.users after initializeUsers
Users == 1..InitialUsers

\* a user id that initializeUsers never registered
UnknownUser == InitialUsers + 1

\* indices of RatingCount and PrefixHigher
RatingIndex == 0..MaxRating

\* utils.GenerateRandomRating(MinRating, MaxRating)
SimRatings == MinRating..MaxRating

\* NewRating values of a RatingUpdate (an int): below the arrays, inside
\* them below MinRating, in range, above the arrays
AnyRatings == (0 - 1)..(MaxRating + 1)

\* UserID values of a RatingUpdate (an int)
AnyUserIDs == Users \cup {UnknownUser}

Readers == 1..NumReaders

\* addresses of snapshots: the cell, one per reader, one under construction
SnapIds == 0..(NumReaders + 1)

\* utils.GenerateRandomUsername: names repeat, ids do not
UsernamePool == <<"amit", "rahul", "amit_kumar", "user_4">>

NameOf(id) == UsernamePool[((id - 1) % Len(UsernamePool)) + 1]

\* no function has been called directly
NoCall == [fn |-> "none", arg |-> <<>>, result |-> <<>>]

VARIABLES
  users,            \* s.users: userID -> Username; fixed after initialisation
  searchIndex,      \* s.searchIndex: gram -> list of user ids; fixed as well
  rngCallers,       \* the goroutines inside a call on the generator utils.rng
  call,             \* a test's direct call of a function: name, argument, result
  updateChan,       \* s.updateChan: buffered channel of RatingUpdate
  writerRatings,    \* s.writerRatings: userID -> rating
  currentSnapshot,  \* s.currentSnapshot: address held by the atomic cell
  heap,             \* address -> LeaderboardSnapshot (live objects only)
  wpc,              \* position of the snapshotWriter goroutine
  pendingUpdates,   \* snapshotWriter's local pendingUpdates
  ret,              \* where rebuildSnapshot returns to
  builder,          \* the SnapshotBuilder of the running rebuildSnapshot
  newSnap,          \* address of the snapshot Build is filling
  readers,          \* per reader goroutine: position, loaded address and
                    \* the locals of the query it runs
  batch             \* history: per user, the last NewRating of the updates
                    \* received for the latest rebuild and whether there
                    \* were several

vars == <<users, searchIndex, rngCallers, call, updateChan, writerRatings, currentSnapshot,
          heap, wpc, pendingUpdates, ret, builder, newSnap, readers, batch>>

\* ------------------------------------------------------------ snapshot
EmptyMap == [x \in {} |-> 0]

ZeroArray == [r \in RatingIndex |-> 0]

\* Build, 1936-1941: RatingCount[rating]++ for the ratings inside the array
CountRatings(ur) ==
  [r \in RatingIndex |-> Cardinality({u \in DOMAIN ur : ur[u] = r})]

\* Build, 1944-1950: the high-to-low sweep; Sweep(rc, r) is the value of
\* distinctLevels when the loop reaches index r
RECURSIVE Sweep(_, _)
Sweep(rc, r) ==
  IF r = MaxRating THEN 0
  ELSE Sweep(rc, r + 1) + (IF rc[r + 1] > 0 THEN 1 ELSE 0)

\* the sweep adding the users of each level instead of one per level
RECURSIVE SweepUsers(_, _)
SweepUsers(rc, r) ==
  IF r = MaxRating THEN 0 ELSE SweepUsers(rc, r + 1) + rc[r + 1]

ComputePrefixHigherCountingUsers(rc) ==
  [r \in RatingIndex |-> SweepUsers(rc, r)]

ComputePrefixHigher(rc) == [r \in RatingIndex |-> Sweep(rc, r)]

\* sort.Slice(users, users[i].ID < users[j].ID) over the summaries of ids
RECURSIVE SortByID(_, _)
SortByID(ids, b) ==
  IF ids = {} THEN <<>>
  ELSE LET m == CHOOSE x \in ids : \A y \in ids : x <= y
       IN <<[ID |-> m, Username |-> b.usernames[m],
             Rating |-> b.userRatings[m]]>> \o SortByID(ids \ {m}, b)

\* Build, 1953-1971: one bucket per rating some user holds (any int key),
\* each bucket in ascending ID
GroupUsers(b) ==
  [r \in {b.userRatings[u] : u \in DOMAIN b.userRatings} |->
     SortByID({u \in DOMAIN b.userRatings : b.userRatings[u] = r}, b)]

\* the orders in which a range over a Go map with the keys ids may visit them
Orders(ids) ==
  {o \in [1..Cardinality(ids) -> ids] :
     \A i, j \in 1..Cardinality(ids) : o[i] = o[j] => i = j}

\* Build, 1953-1960: the UserSummary of userID
UserSummary(b, userID) ==
  [ID |-> userID, Username |-> b.usernames[userID],
   Rating |-> b.userRatings[userID]]

\* Build, 1953-1961: every user is appended to the bucket of its rating,
\* in the order of the range over b.userRatings
RECURSIVE AppendToBuckets(_, _, _)
AppendToBuckets(buckets, order, b) ==
  IF order = <<>> THEN buckets
  ELSE LET r == b.userRatings[Head(order)]
           old == IF r \in DOMAIN buckets THEN buckets[r] ELSE <<>>
       IN AppendToBuckets((r :> Append(old, UserSummary(b, Head(order))))
                            @@ buckets,
                          Tail(order), b)

\* a sort that leaves the slice as it is
SortSliceKeepingOrder(bucket) == bucket

\* Build, 1966-1968: sort.Slice with users[i].ID < users[j].ID; the IDs of
\* a bucket are distinct
SortSlice(bucket) ==
  [k \in 1..Len(bucket) |->
     CHOOSE e \in {bucket[i] : i \in 1..Len(bucket)} :
       Cardinality({i \in 1..Len(bucket) : bucket[i].ID < e.ID}) = k - 1]

\* Build returning the buckets as the appends left them
GroupUsersInUnsorted(order, b) == AppendToBuckets(EmptyMap, order, b)

\* Build keeping buckets for the ratings inside the arrays only
GroupUsersInArrayOnly(order, b) ==
  [r \in DOMAIN AppendToBuckets(EmptyMap, order, b) \cap RatingIndex |->
     SortSlice(AppendToBuckets(EmptyMap, order, b)[r])]

\* Build, 1952-1971: UsersByRating when the range over b.userRatings
\* visits the users in the given order
GroupUsersIn(order, b) ==
  [r \in DOMAIN AppendToBuckets(EmptyMap, order, b) |->
     SortSlice(AppendToBuckets(EmptyMap, order, b)[r])]

\* GetRank clamping an out-of-bounds rating to the nearest index
GetRankClamping(s, rating) ==
  IF rating < 0 THEN s.PrefixHigher[0] + 1
  ELSE IF rating >= MaxRating + 1 THEN s.PrefixHigher[MaxRating] + 1
  ELSE s.PrefixHigher[rating] + 1

\* GetRank giving an out-of-bounds rating the rank below every user
GetRankLastForOutOfBounds(s, rating) ==
  IF rating < 0 \/ rating >= MaxRating + 1 THEN s.PrefixHigher[0] + 2
  ELSE s.PrefixHigher[rating] + 1

\* GetRank without the + 1
GetRankZeroBased(s, rating) ==
  IF rating < 0 \/ rating >= MaxRating + 1 THEN 1
  ELSE s.PrefixHigher[rating]

\* GetRank giving rank 0 when the snapshot holds no user
GetRankZeroWhenEmpty(s, rating) ==
  IF DOMAIN s.UserRatings = {} THEN 0
  ELSE IF rating < 0 \/ rating >= MaxRating + 1 THEN 1
  ELSE s.PrefixHigher[rating] + 1

\* LeaderboardSnapshot.GetRank
GetRank(s, rating) ==
  IF rating < 0 \/ rating >= MaxRating + 1 THEN 1
  ELSE s.PrefixHigher[rating] + 1

\* LeaderboardSnapshot.GetUserRating: the zero value for a missing key
GetUserRating(s, userID) ==
  IF userID \in DOMAIN s.UserRatings THEN s.UserRatings[userID] ELSE 0

\* LeaderboardSnapshot.TotalUsers
TotalUsers(s) == Cardinality(DOMAIN s.UserRatings)

\* NewSnapshotBuilder
EmptyBuilder == [userRatings |-> EmptyMap, usernames |-> EmptyMap]

\* NewSnapshotBuilder followed by AddUser(id, names[id], ur[id]) for every id
BuilderOf(ur, names) ==
  [userRatings |-> ur, usernames |-> [u \in DOMAIN ur |-> names[u]]]

\* the value Build returns for builder b
BuildResult(b) ==
  [UserRatings |-> b.userRatings,
   RatingCount |-> CountRatings(b.userRatings),
   PrefixHigher |-> ComputePrefixHigher(CountRatings(b.userRatings)),
   UsersByRating |-> GroupUsers(b)]

\* -------------------------------------------------------- search index
\* generateNGrams: the shortest and the longest gram (n := 2; n <= 5)
MinGram == 2

MaxGram == 5

UpperCase == "ABCDEFGHIJKLMNOPQRSTUVWXYZ"

LowerCase == "abcdefghijklmnopqrstuvwxyz"

\* unicode.ToLower on one character: letters of UpperCase map to the letter
\* of LowerCase at the same place, everything else maps to itself
LowerChar(c) ==
  IF \E k \in 1..Len(UpperCase) : SubSeq(UpperCase, k, k) = c
  THEN LET k == CHOOSE j \in 1..Len(UpperCase) : SubSeq(UpperCase, j, j) = c
       IN SubSeq(LowerCase, k, k)
  ELSE c

RECURSIVE LowerFrom(_, _)
LowerFrom(s, i) ==
  IF i > Len(s) THEN "" ELSE LowerChar(SubSeq(s, i, i)) \o LowerFrom(s, i + 1)

\* a conversion that leaves every character as it is
ToLowerKeepingCase(s) == s

\* strings.ToLower
ToLower(s) == LowerFrom(s, 1)

\* strings.Contains: substr occurs in s as a contiguous run
Contains(s, substr) ==
  \E i \in 1..(Len(s) - Len(substr) + 1) :
    SubSeq(s, i, i + Len(substr) - 1) = substr

Range(f) == {f[x] : x \in DOMAIN f}

\* the windows without the last one
WindowsWithoutLast(s, n) == [i \in 1..(Len(s) - n) |-> SubSeq(s, i, i + n - 1)]

\* generateNGrams, 450-456: the windows s[i : i+n] for i = 0..len(s)-n
Windows(s, n) == [i \in 1..(Len(s) - n + 1) |-> SubSeq(s, i, i + n - 1)]

\* generateNGrams, 452-455: append the grams not seen before
RECURSIVE AppendUnseen(_, _)
AppendUnseen(grams, more) ==
  IF more = <<>> THEN grams
  ELSE AppendUnseen(IF Head(more) \in Range(grams) THEN grams
                    ELSE Append(grams, Head(more)),
                    Tail(more))

\* generateNGrams, 449: the loop over n, from n up to 5 and len(s)
RECURSIVE GramsFrom(_, _, _)
GramsFrom(s, n, grams) ==
  IF n > MaxGram \/ n > Len(s) THEN grams
  ELSE GramsFrom(s, n + 1, AppendUnseen(grams, Windows(s, n)))

\* generateNGrams
generateNGrams(s) ==
  IF Len(s) < MinGram THEN <<>> ELSE GramsFrom(s, MinGram, <<>>)

\* s.searchIndex[gram]: nil for a gram that is no key
PostingList(index, gram) ==
  IF gram \in DOMAIN index THEN index[gram] ELSE <<>>

\* an index keyed by the grams of the username as written
indexUsernameAsWritten(index, userID, username) ==
  LET grams == Range(generateNGrams(username)) IN
    [g \in DOMAIN index \cup grams |->
       IF g \in grams THEN Append(PostingList(index, g), userID)
       ELSE index[g]]

\* an index whose lists grow at the front
indexUsernamePrepending(index, userID, username) ==
  LET grams == Range(generateNGrams(ToLower(username))) IN
    [g \in DOMAIN index \cup grams |->
       IF g \in grams THEN <<userID>> \o PostingList(index, g)
       ELSE index[g]]

\* indexUsername: userID is appended once to the list of every gram of the
\* lowercased username
indexUsername(index, userID, username) ==
  LET grams == Range(generateNGrams(ToLower(username))) IN
    [g \in DOMAIN index \cup grams |->
       IF g \in grams THEN Append(PostingList(index, g), userID)
       ELSE index[g]]

\* the loop of initializeUsers and of createTestService: ids in ascending order
RECURSIVE IndexAll(_, _, _)
IndexAll(index, names, ids) ==
  IF ids = {} THEN index
  ELSE LET m == CHOOSE x \in ids : \A y \in ids : x <= y
       IN IndexAll(indexUsername(index, m, names[m]), names, ids \ {m})

BuildIndex(names) == IndexAll(EmptyMap, names, DOMAIN names)

\* intersectPostingLists, 468-477: the first gram with a shortest list
ShortestIdx(index, grams) ==
  CHOOSE i \in DOMAIN grams :
    /\ \A j \in DOMAIN grams :
         Len(PostingList(index, grams[i])) <= Len(PostingList(index, grams[j]))
    /\ \A j \in DOMAIN grams :
         j < i => Len(PostingList(index, grams[j])) >
                    Len(PostingList(index, grams[i]))

\* intersectPostingLists, 485-509: the loop over the other grams
RECURSIVE IntersectFrom(_, _, _, _, _)
IntersectFrom(index, grams, i, shortestIdx, candidates) ==
  IF i > Len(grams) THEN candidates
  ELSE IF i = shortestIdx
       THEN IntersectFrom(index, grams, i + 1, shortestIdx, candidates)
  ELSE IF PostingList(index, grams[i]) = <<>> THEN {}
  ELSE LET kept == candidates \cap Range(PostingList(index, grams[i])) IN
         IF kept = {} THEN kept
         ELSE IntersectFrom(index, grams, i + 1, shortestIdx, kept)

\* the seed list alone, not intersected with the other lists
intersectPostingListsSeedOnly(index, grams) ==
  IF grams = <<>> THEN {}
  ELSE Range(PostingList(index, grams[ShortestIdx(index, grams)]))

\* intersectPostingLists
intersectPostingLists(index, grams) ==
  IF grams = <<>> THEN {}
  ELSE LET shortestIdx == ShortestIdx(index, grams) IN
         IntersectFrom(index, grams, 1, shortestIdx,
                       Range(PostingList(index, grams[shortestIdx])))

\* ---------------------------------------------------------------- heap
\* the addresses some goroutine or the cell still refers to
Live(cur, rds, ns) ==
  ({cur} \cup {rds[i].snap : i \in Readers} \cup {ns}) \ {NoSnap}

\* garbage collection: unreferenced snapshots are dropped
Collect(h, cur, rds, ns) ==
  [a \in (DOMAIN h) \cap Live(cur, rds, ns) |-> h[a]]

\* allocation: an address not in use
NewAddr(h) == CHOOSE a \in SnapIds : a \notin DOMAIN h /\
                 \A b \in SnapIds : b \notin DOMAIN h => a <= b

\* a reader goroutine between two queries
IdleReader ==
  [pc |-> "idle", snap |-> NoSnap, op |-> "none", query |-> "", limit |-> 0,
   todo |-> {}, result |-> <<>>]

\* ---------------------------------------------------------------- init
\* NewLeaderboardService / initializeUsers: every user gets a random rating
\* in [MinRating, MaxRating]; the first snapshot is built and stored before
\* the goroutines start
Init ==
  \E ur \in [Users -> SimRatings] :
    /\ users = [id \in Users |-> NameOf(id)]
    /\ searchIndex = BuildIndex([id \in Users |-> NameOf(id)])
    /\ rngCallers = {}
    /\ call = NoCall
    /\ updateChan = <<>>
    /\ writerRatings = ur
    /\ currentSnapshot = 0
    /\ heap = (0 :> BuildResult(BuilderOf(ur, [id \in Users |-> NameOf(id)])))
    /\ wpc = "select"
    /\ pendingUpdates = FALSE
    /\ ret = "select"
    /\ builder = EmptyBuilder
    /\ newSnap = NoSnap
    /\ readers = [i \in Readers |-> IdleReader]
    /\ batch = EmptyMap

\* an unrecovered panic in the writer goroutine ends the process
Running == wpc # "panic"

\* ------------------------------------------------------------ producers
\* a send that appends whatever the channel already holds
OfferBeyondCapacity(update) ==
  /\ Running
  /\ updateChan' = Append(updateChan, update)
  /\ UNCHANGED <<users, searchIndex, call, rngCallers,
                 writerRatings, currentSnapshot, heap, wpc, pendingUpdates,
                 ret, builder, newSnap, readers, batch>>

\* a send that also writes the rating into the working set
OfferWritingThrough(update) ==
  /\ Running
  /\ updateChan' = IF Len(updateChan) < UpdateBufferSize
                   THEN Append(updateChan, update)
                   ELSE updateChan
  /\ writerRatings' = (update.UserID :> update.NewRating) @@ writerRatings
  /\ UNCHANGED <<users, searchIndex, call, rngCallers,
                 currentSnapshot, heap, wpc, pendingUpdates,
                 ret, builder, newSnap, readers, batch>>

\* updateSimulator, 416-423: non-blocking send, dropped when the channel is full
Offer(update) ==
  /\ Running
  /\ updateChan' = IF Len(updateChan) < UpdateBufferSize
                   THEN Append(updateChan, update)
                   ELSE updateChan
  /\ UNCHANGED <<users, searchIndex, call, rngCallers,
                 writerRatings, currentSnapshot, heap, wpc, pendingUpdates,
                 ret, builder, newSnap, readers, batch>>

\* updateSimulator, 412-424: one iteration of the send loop
updateSimulator ==
  \E userID \in Users, newRating \in SimRatings :
    Offer([UserID |-> userID, NewRating |-> newRating])

\* the update-simulator goroutines of the process, one per service
\* instance; instance 1 is the service of this model
Simulators == 1..NumServices

\* updateSimulator, 413, and GenerateRandomRating, random.go 54: the
\* simulator of instance j enters rng.Intn on the generator of package
\* utils, which every instance shares and no lock guards; Intn reads and
\* writes the generator's state
SimulatorDraw(j) ==
  /\ Running
  /\ j \notin rngCallers
  /\ rngCallers' = rngCallers \cup {j}
  /\ UNCHANGED <<users, searchIndex, call, updateChan, writerRatings,
                 currentSnapshot, heap, wpc, pendingUpdates, ret, builder,
                 newSnap, readers, batch>>

\* updateSimulator, 413-423: Intn returns and the update is sent without
\* blocking; the channels of the other instances are not part of the model
SimulatorSend(j) ==
  /\ Running
  /\ j \in rngCallers
  /\ rngCallers' = rngCallers \ {j}
  /\ \E userID \in Users, newRating \in SimRatings :
       updateChan' = IF j = 1 /\ Len(updateChan) < UpdateBufferSize
                     THEN Append(updateChan, [UserID |-> userID,
                                              NewRating |-> newRating])
                     ELSE updateChan
  /\ UNCHANGED <<users, searchIndex, call, writerRatings,
                 currentSnapshot, heap, wpc, pendingUpdates, ret, builder,
                 newSnap, readers, batch>>

\* a producer other than the simulator: any RatingUpdate value
SubmitUpdate ==
  \E userID \in AnyUserIDs, newRating \in AnyRatings :
    Offer([UserID |-> userID, NewRating |-> newRating])

\* --------------------------------------------------------------- writer
\* an update that only inserts: a rating already present is kept
ApplyUpdateKeepingOld(wr, update) ==
  wr @@ (update.UserID :> update.NewRating)

\* snapshotWriter, 361 and 375: s.writerRatings[update.UserID] = update.NewRating
ApplyUpdate(wr, update) ==
  (update.UserID :> update.NewRating) @@ wr

\* history of the receives at 360 and 374: the first update after a
\* publication (pendingUpdates still false) starts a new batch
Received(bt, update) ==
  LET old == IF pendingUpdates THEN bt ELSE EmptyMap IN
    [u \in DOMAIN old \cup {update.UserID} |->
       IF u = update.UserID
       THEN [last |-> update.NewRating,
             n |-> IF u \in DOMAIN old THEN 2 ELSE 1]
       ELSE old[u]]

\* a rebuild from the users updated since the last publication only
RebuildStartFromBatch(retpc) ==
  IF DOMAIN writerRatings \subseteq DOMAIN users
  THEN /\ builder' = BuilderOf([u \in DOMAIN batch |-> writerRatings[u]],
                               users)
       /\ wpc' = "build_count"
       /\ ret' = retpc
  ELSE /\ wpc' = "panic"
       /\ UNCHANGED <<builder, ret>>

\* rebuildSnapshot, 391-396: fill a new builder from writerRatings; the
\* lookup s.users[userID] of an unregistered id yields nil and
\* user.Username panics
RebuildStart(retpc) ==
  IF DOMAIN writerRatings \subseteq DOMAIN users
  THEN /\ builder' = BuilderOf(writerRatings, users)
       /\ wpc' = "build_count"
       /\ ret' = retpc
  ELSE /\ wpc' = "panic"
       /\ UNCHANGED <<builder, ret>>

\* a receive that indexes the updated user's name again
WriterRecvIndexing ==
  /\ wpc = "select"
  /\ updateChan # <<>>
  /\ writerRatings' = ApplyUpdate(writerRatings, Head(updateChan))
  /\ searchIndex' = indexUsername(searchIndex, Head(updateChan).UserID,
                                  users[Head(updateChan).UserID])
  /\ batch' = Received(batch, Head(updateChan))
  /\ updateChan' = Tail(updateChan)
  /\ pendingUpdates' = TRUE
  /\ wpc' = "drain"
  /\ UNCHANGED <<users, call, rngCallers,
                 currentSnapshot, heap, ret, builder, newSnap, readers>>

\* snapshotWriter, 360-362: the select receives an update
WriterRecv ==
  /\ wpc = "select"
  /\ updateChan # <<>>
  /\ writerRatings' = ApplyUpdate(writerRatings, Head(updateChan))
  /\ batch' = Received(batch, Head(updateChan))
  /\ updateChan' = Tail(updateChan)
  /\ pendingUpdates' = TRUE
  /\ wpc' = "drain"
  /\ UNCHANGED <<users, searchIndex, call, rngCallers,
                 currentSnapshot, heap, ret, builder, newSnap, readers>>

\* a tick that rebuilds whether or not an update is pending
WriterTickAlwaysRebuilding ==
  /\ wpc = "select"
  /\ RebuildStart("drain")
  /\ UNCHANGED <<users, searchIndex, call, rngCallers,
                 updateChan, writerRatings, currentSnapshot, heap,
                 pendingUpdates, newSnap, readers, batch>>

\* snapshotWriter, 364-368: the select takes a tick
WriterTick ==
  /\ wpc = "select"
  /\ IF pendingUpdates
     THEN RebuildStart("drain")
     ELSE /\ wpc' = "drain"
          /\ UNCHANGED <<builder, ret>>
  /\ UNCHANGED <<users, searchIndex, call, rngCallers,
                 updateChan, writerRatings, currentSnapshot, heap,
                 pendingUpdates, newSnap, readers, batch>>

\* snapshotWriter, 372-376: the drain loop receives one more update
WriterDrainRecv ==
  /\ wpc = "drain"
  /\ updateChan # <<>>
  /\ writerRatings' = ApplyUpdate(writerRatings, Head(updateChan))
  /\ batch' = Received(batch, Head(updateChan))
  /\ updateChan' = Tail(updateChan)
  /\ pendingUpdates' = TRUE
  /\ UNCHANGED <<users, searchIndex, call, rngCallers,
                 currentSnapshot, heap, wpc, ret, builder, newSnap, readers>>

\* a drain loop that leaves the rebuild to the next tick
WriterDrainedWaitingForTick ==
  /\ wpc = "drain"
  /\ updateChan = <<>>
  /\ wpc' = "select"
  /\ UNCHANGED <<users, searchIndex, call, rngCallers,
                 updateChan, writerRatings, currentSnapshot, heap,
                 pendingUpdates, ret, builder, newSnap, readers, batch>>

\* snapshotWriter, 377-386: the channel is empty; rebuild if anything changed
WriterDrained ==
  /\ wpc = "drain"
  /\ updateChan = <<>>
  /\ IF pendingUpdates
     THEN RebuildStart("select")
     ELSE /\ wpc' = "select"
          /\ UNCHANGED <<builder, ret>>
  /\ UNCHANGED <<users, searchIndex, call, rngCallers,
                 updateChan, writerRatings, currentSnapshot, heap,
                 pendingUpdates, newSnap, readers, batch>>

\* Build storing the snapshot into the cell as soon as it is allocated
WriterBuildCountPublishing ==
  /\ wpc = "build_count"
  /\ LET a == NewAddr(heap) IN
       /\ newSnap' = a
       /\ currentSnapshot' = a
       /\ heap' = (a :> [UserRatings |-> builder.userRatings,
                         RatingCount |-> CountRatings(builder.userRatings),
                         PrefixHigher |-> ZeroArray,
                         UsersByRating |-> EmptyMap]) @@ heap
  /\ wpc' = "build_prefix"
  /\ UNCHANGED <<users, searchIndex, call, rngCallers,
                 updateChan, writerRatings, pendingUpdates,
                 ret, builder, readers, batch>>

\* Build refilling the snapshot the cell holds instead of allocating one
WriterBuildCountInPlace ==
  /\ wpc = "build_count"
  /\ newSnap' = currentSnapshot
  /\ heap' = [heap EXCEPT ![currentSnapshot] =
                [UserRatings |-> builder.userRatings,
                 RatingCount |-> CountRatings(builder.userRatings),
                 PrefixHigher |-> ZeroArray,
                 UsersByRating |-> EmptyMap]]
  /\ wpc' = "build_prefix"
  /\ UNCHANGED <<users, searchIndex, call, rngCallers,
                 updateChan, writerRatings, currentSnapshot, pendingUpdates,
                 ret, builder, readers, batch>>

\* Build, 1929-1941: allocate the snapshot, copy the ratings, count them
WriterBuildCount ==
  /\ wpc = "build_count"
  /\ LET a == NewAddr(heap) IN
       /\ newSnap' = a
       /\ heap' = (a :> [UserRatings |-> builder.userRatings,
                         RatingCount |-> CountRatings(builder.userRatings),
                         PrefixHigher |-> ZeroArray,
                         UsersByRating |-> EmptyMap]) @@ heap
  /\ wpc' = "build_prefix"
  /\ UNCHANGED <<users, searchIndex, call, rngCallers,
                 updateChan, writerRatings, currentSnapshot, pendingUpdates,
                 ret, builder, readers, batch>>

\* Build, 1943-1950: fill PrefixHigher
WriterBuildPrefix ==
  /\ wpc = "build_prefix"
  /\ heap' = [heap EXCEPT ![newSnap].PrefixHigher =
                ComputePrefixHigher(heap[newSnap].RatingCount)]
  /\ wpc' = "build_group"
  /\ UNCHANGED <<users, searchIndex, call, rngCallers,
                 updateChan, writerRatings, currentSnapshot, pendingUpdates,
                 ret, builder, newSnap, readers, batch>>

\* Build, 1952-1973: fill and sort UsersByRating, return
WriterBuildGroup ==
  /\ wpc = "build_group"
  /\ \E order \in Orders(DOMAIN builder.userRatings) :
       heap' = [heap EXCEPT
                  ![newSnap].UsersByRating = GroupUsersIn(order, builder)]
  /\ wpc' = "store"
  /\ UNCHANGED <<users, searchIndex, call, rngCallers,
                 updateChan, writerRatings, currentSnapshot, pendingUpdates,
                 ret, builder, newSnap, readers, batch>>

\* rebuildSnapshot, 402: s.currentSnapshot.Store(newSnapshot); then
\* pendingUpdates = false (367, 385)
WriterStore ==
  /\ wpc = "store"
  /\ currentSnapshot' = newSnap
  /\ newSnap' = NoSnap
  /\ heap' = Collect(heap, newSnap, readers, NoSnap)
  /\ builder' = EmptyBuilder
  /\ pendingUpdates' = FALSE
  /\ wpc' = ret
  /\ UNCHANGED <<users, searchIndex, call, rngCallers,
                 updateChan, writerRatings, ret, readers, batch>>

Writer ==
  \/ WriterRecv
  \/ WriterTick
  \/ WriterDrainRecv
  \/ WriterDrained
  \/ WriterBuildCount
  \/ WriterBuildPrefix
  \/ WriterBuildGroup
  \/ WriterStore

\* -------------------------------------------------------------- readers
\* GetSnapshot, 263: one atomic load, the first step of every query
ReaderLoad(i) ==
  /\ Running
  /\ readers[i].pc = "idle"
  /\ readers' = [readers EXCEPT ![i].pc = "loaded",
                                ![i].snap = currentSnapshot]
  /\ UNCHANGED <<users, searchIndex, call, rngCallers,
                 updateChan, writerRatings, currentSnapshot, heap, wpc,
                 pendingUpdates, ret, builder, newSnap, batch>>

\* the query returns and drops its reference
ReaderReturn(i) ==
  /\ Running
  /\ readers[i].pc = "loaded"
  /\ LET rds == [readers EXCEPT ![i] = IdleReader] IN
       /\ readers' = rds
       /\ heap' = Collect(heap, currentSnapshot, rds, newSnap)
  /\ UNCHANGED <<users, searchIndex, call, rngCallers,
                 updateChan, writerRatings, currentSnapshot, wpc,
                 pendingUpdates, ret, builder, newSnap, batch>>

Reader == \E i \in Readers : ReaderLoad(i) \/ ReaderReturn(i)

\* -------------------------------------------------------------- queries
\* an entry whose rank comes from a second load of the cell
SearchHitReloading(a, userID) ==
  [ID |-> userID,
   Rank |-> GetRank(heap[currentSnapshot], GetUserRating(heap[a], userID)),
   Username |-> users[userID],
   Rating |-> GetUserRating(heap[a], userID)]

\* models.LeaderboardEntry for user userID under the snapshot at address a
\* (Search, 329-336; linearScanSearch, 521-528).  ID is no field of the
\* entry: it tells the hits of users with equal names apart.
SearchHit(a, userID) ==
  [ID |-> userID,
   Rank |-> GetRank(heap[a], GetUserRating(heap[a], userID)),
   Username |-> users[userID],
   Rating |-> GetUserRating(heap[a], userID)]

\* candidates from the index alone, without the linear scan
CandidatesFromIndexOnly(query) ==
  intersectPostingLists(searchIndex, generateNGrams(query))

\* Search, 314-318: the users the loop will visit: the candidates of the
\* index, or every user when the query has no grams (linearScanSearch, 517)
Candidates(query) ==
  IF generateNGrams(query) = <<>> THEN DOMAIN users
  ELSE intersectPostingLists(searchIndex, generateNGrams(query))

\* a loop that takes every candidate as a hit
MatchesEveryCandidate(userID, query) == userID \in DOMAIN users

\* Search, 321-327, and linearScanSearch, 518-519: the literal re-check
Matches(userID, query) == Contains(ToLower(users[userID]), query)

\* the users of the entries a Search(q) call returns
SearchUsers(q) ==
  IF q = "" THEN {}
  ELSE {userID \in Candidates(ToLower(q)) : Matches(userID, ToLower(q))}

\* Search without the early return for the empty query
SearchStartWithoutEmptyCheck(i, q) ==
  /\ Running
  /\ readers[i].pc = "idle"
  /\ readers' = [readers EXCEPT ![i] =
       [pc |-> IF Candidates(ToLower(q)) = {} THEN "done" ELSE "scan",
        snap |-> currentSnapshot, op |-> "Search", query |-> q,
        limit |-> 0, todo |-> Candidates(ToLower(q)),
        result |-> <<>>]]
  /\ UNCHANGED <<users, searchIndex, call, rngCallers, updateChan, writerRatings,
                 currentSnapshot, heap, wpc, pendingUpdates, ret, builder,
                 newSnap, batch>>

\* Search, 300-318: the empty query returns at once; otherwise the query is
\* lowercased, the snapshot is loaded and the candidates are computed
SearchStart(i, q) ==
  /\ Running
  /\ readers[i].pc = "idle"
  /\ readers' = [readers EXCEPT ![i] =
       IF q = ""
       THEN [pc |-> "done", snap |-> NoSnap, op |-> "Search", query |-> q,
             limit |-> 0, todo |-> {}, result |-> <<>>]
       ELSE [pc |-> IF Candidates(ToLower(q)) = {} THEN "done" ELSE "scan",
             snap |-> currentSnapshot, op |-> "Search", query |-> q,
             limit |-> 0, todo |-> Candidates(ToLower(q)),
             result |-> <<>>]]
  /\ UNCHANGED <<users, searchIndex, call, rngCallers, updateChan, writerRatings,
                 currentSnapshot, heap, wpc, pendingUpdates, ret, builder,
                 newSnap, batch>>

\* Search, 320-337, and linearScanSearch, 517-529: one iteration of the
\* loop; the order of a range over a Go map is not specified
SearchVisit(i) ==
  /\ Running
  /\ readers[i].pc = "scan"
  /\ \E userID \in readers[i].todo :
       readers' = [readers EXCEPT
         ![i].todo = @ \ {userID},
         ![i].result = IF Matches(userID, ToLower(readers[i].query))
                       THEN Append(@, SearchHit(readers[i].snap, userID))
                       ELSE @,
         ![i].pc = IF readers[i].todo = {userID} THEN "done" ELSE "scan"]
  /\ UNCHANGED <<users, searchIndex, call, rngCallers, updateChan, writerRatings,
                 currentSnapshot, heap, wpc, pendingUpdates, ret, builder,
                 newSnap, batch>>

\* s.UsersByRating[rating]: nil for a rating that is no key
Bucket(s, rating) ==
  IF rating \in DOMAIN s.UsersByRating THEN s.UsersByRating[rating] ELSE <<>>

\* entries ranked by their position in the bucket
BucketEntriesRankedByPosition(s, rating) ==
  [k \in 1..Len(Bucket(s, rating)) |->
     [ID |-> Bucket(s, rating)[k].ID,
      Rank |-> GetRank(s, rating) + k - 1,
      Username |-> Bucket(s, rating)[k].Username,
      Rating |-> Bucket(s, rating)[k].Rating]]

\* GetLeaderboard, 283-288: the entries of one bucket, in bucket order.  ID
\* is no field of the entry: it tells users with equal names apart.
BucketEntries(s, rating) ==
  [k \in 1..Len(Bucket(s, rating)) |->
     [ID |-> Bucket(s, rating)[k].ID,
      Rank |-> GetRank(s, rating),
      Username |-> Bucket(s, rating)[k].Username,
      Rating |-> Bucket(s, rating)[k].Rating]]

\* GetLeaderboard, 275-294: the walk from rating down to MinRating; result
\* holds fewer than limit entries when a bucket is entered
RECURSIVE Walk(_, _, _, _)
Walk(s, rating, limit, result) ==
  IF rating < MinRating THEN result
  ELSE IF Len(Bucket(s, rating)) >= limit - Len(result)
       THEN result \o SubSeq(BucketEntries(s, rating), 1, limit - Len(result))
       ELSE Walk(s, rating - 1, limit, result \o BucketEntries(s, rating))

\* GetLeaderboard taking the limit as given
GetLeaderboardWithoutDefault(s, limit) == Walk(s, MaxRating, limit, <<>>)

\* GetLeaderboard on snapshot s
GetLeaderboard(s, limit) ==
  Walk(s, MaxRating, IF limit <= 0 THEN DefaultLimit ELSE limit, <<>>)

\* GetLeaderboard, 266-297: the call of reader i
LeaderboardCall(i, limit) ==
  /\ Running
  /\ readers[i].pc = "idle"
  /\ readers' = [readers EXCEPT ![i] =
       [pc |-> "done", snap |-> currentSnapshot, op |-> "GetLeaderboard",
        query |-> "", limit |-> limit, todo |-> {},
        result |-> GetLeaderboard(heap[currentSnapshot], limit)]]
  /\ UNCHANGED <<users, searchIndex, call, rngCallers, updateChan, writerRatings,
                 currentSnapshot, heap, wpc, pendingUpdates, ret, builder,
                 newSnap, batch>>

\* GetLeaderboard, 266-273: the limit is defaulted, the snapshot is loaded
\* once and the walk starts at MaxRating
LeaderboardStart(i, limit) ==
  /\ Running
  /\ readers[i].pc = "idle"
  /\ readers' = [readers EXCEPT ![i] =
       [pc |-> "walk", snap |-> currentSnapshot, op |-> "GetLeaderboard",
        query |-> "", limit |-> IF limit <= 0 THEN DefaultLimit ELSE limit,
        todo |-> MinRating..MaxRating, result |-> <<>>]]
  /\ UNCHANGED <<users, searchIndex, call, rngCallers, updateChan, writerRatings,
                 currentSnapshot, heap, wpc, pendingUpdates, ret, builder,
                 newSnap, batch>>

\* the highest rating the walk has not visited
NextRating(i) ==
  CHOOSE r \in readers[i].todo : \A q \in readers[i].todo : q <= r

\* the entries the walk of reader i takes from the bucket of its next
\* rating in snapshot s, and whether they fill the result
WalkStep(i, s) ==
  LET room == readers[i].limit - Len(readers[i].result)
      full == Len(Bucket(s, NextRating(i))) >= room
  IN [readers EXCEPT
        ![i].result = IF full
                      THEN @ \o SubSeq(BucketEntries(s, NextRating(i)), 1, room)
                      ELSE @ \o BucketEntries(s, NextRating(i)),
        ![i].todo = IF full THEN {} ELSE @ \ {NextRating(i)},
        ![i].pc = IF full \/ readers[i].todo = {NextRating(i)}
                  THEN "done" ELSE "walk"]

\* an iteration that loads the cell again
LeaderboardVisitReloading(i) ==
  /\ Running
  /\ readers[i].pc = "walk"
  /\ readers' = WalkStep(i, heap[currentSnapshot])
  /\ UNCHANGED <<users, searchIndex, call, rngCallers, updateChan, writerRatings,
                 currentSnapshot, heap, wpc, pendingUpdates, ret, builder,
                 newSnap, batch>>

\* GetLeaderboard, 275-294: one iteration of the loop over the ratings, on
\* the snapshot loaded at 271
LeaderboardVisit(i) ==
  /\ Running
  /\ readers[i].pc = "walk"
  /\ readers' = WalkStep(i, heap[readers[i].snap])
  /\ UNCHANGED <<users, searchIndex, call, rngCallers, updateChan, writerRatings,
                 currentSnapshot, heap, wpc, pendingUpdates, ret, builder,
                 newSnap, batch>>

\* the query returns its result and drops its reference
QueryReturn(i) ==
  /\ Running
  /\ readers[i].pc = "done"
  /\ LET rds == [readers EXCEPT ![i] = IdleReader] IN
       /\ readers' = rds
       /\ heap' = Collect(heap, currentSnapshot, rds, newSnap)
  /\ UNCHANGED <<users, searchIndex, call, rngCallers, updateChan, writerRatings,
                 currentSnapshot, wpc, pendingUpdates, ret, builder,
                 newSnap, batch>>

\* ---------------------------------------------------------------- specs
\* the service as NewLeaderboardService starts it
Next == Writer \/ Reader \/ updateSimulator

Spec == Init /\ [][Next]_vars

\* the update pipeline (producers, channel, writer, cell) fed by a producer
\* that may send any RatingUpdate; no query runs
NextExt == Writer \/ updateSimulator \/ SubmitUpdate

SpecExt == Init /\ [][NextExt]_vars

\* SnapshotBuilder used on its own, as the tests of package snapshot do:
\* AddUser for any set of ids with any int ratings, then Build
InitBuild ==
  \E ids \in SUBSET (1..BuildUsers) :
    \E ur \in [ids -> AnyRatings] :
      /\ users = [u \in ids |-> NameOf(u)]
      /\ searchIndex = EmptyMap
      /\ rngCallers = {}
      /\ call = NoCall
      /\ updateChan = <<>>
      /\ writerRatings = EmptyMap
      /\ currentSnapshot = NoSnap
      /\ heap = EmptyMap
      /\ wpc = "build_count"
      /\ pendingUpdates = FALSE
      /\ ret = "select"
      /\ builder = BuilderOf(ur, [u \in ids |-> NameOf(u)])
      /\ newSnap = NoSnap
      /\ readers = [i \in Readers |-> IdleReader]
      /\ batch = EmptyMap

NextBuild == WriterBuildCount \/ WriterBuildPrefix \/ WriterBuildGroup

SpecBuild == InitBuild /\ [][NextBuild]_vars

\* the service with a writer goroutine that is scheduled again and again
FairSpec == Spec /\ WF_vars(Writer)

\* the queries a reader sends while the writer runs
ConcQueries == {"A", "ah"}

\* the service with readers that search while the writer republishes
Searcher ==
  \E i \in Readers :
    \/ \E q \in ConcQueries : SearchStart(i, q)
    \/ SearchVisit(i)
    \/ QueryReturn(i)

NextConc == Writer \/ updateSimulator \/ Searcher

SpecConc == Init /\ [][NextConc]_vars

\* a process with NumServices instances: the goroutines of instance 1 and
\* the simulators of all instances, each call on utils.rng taking time
SimulatorsStep == \E j \in Simulators : SimulatorDraw(j) \/ SimulatorSend(j)

NextProcess == Writer \/ Reader \/ SimulatorsStep

SpecProcess == Init /\ [][NextProcess]_vars

\* every goroutine of the service and every query operation: GetSnapshot
\* (also the first step of GetStats), Search and GetLeaderboard
Querier ==
  \E i \in Readers :
    \/ ReaderLoad(i)
    \/ ReaderReturn(i)
    \/ SearchStart(i, "A")
    \/ SearchVisit(i)
    \/ LeaderboardCall(i, 0)
    \/ QueryReturn(i)

NextService == Writer \/ updateSimulator \/ Querier

SpecService == Init /\ [][NextService]_vars

\* GetLeaderboard calls running one loop iteration at a time
Walker ==
  \E i \in Readers :
    \/ \E limit \in 0..1 : LeaderboardStart(i, limit)
    \/ LeaderboardVisit(i)
    \/ QueryReturn(i)

NextWalk == Writer \/ updateSimulator \/ Walker

\* the service with GetLeaderboard calls interleaved with the writer
SpecWalk == Init /\ [][NextWalk]_vars

\* the names of the test services: names with capitals, names that differ
\* only in case, names shorter than a gram, names that hold every gram of
\* a longer query without holding the query
TestNames ==
  {<<"Amit", "amit_kumar", "rahul">>,
   <<"aaaaa", "AAAAAA", "a">>,
   <<"amit", "AMIT", "user_3">>,
   <<"A", "Ravi_9", "bob">>}

\* the user table of a test service: ids 1..TestUsers, names repeat; or
\* no user at all
TestTables ==
  {[id \in 1..TestUsers |-> row[((id - 1) % Len(row)) + 1]] : row \in TestNames}
    \cup {EmptyMap}

\* the queries of the tests
TestQueries ==
  {"", "a", "A", "_", "z", "am", "AM", "mit_k", "amit_k", "AMIT_K",
   "aaaaaa", "AaAaAa", "xyz"}

\* the limits of the tests
TestLimits == (0 - 1)..(TestUsers + 1)

\* createTestService: users, index and one snapshot, no goroutine; the
\* ratings are any ints, as a test may hand them to the builder
InitTest ==
  \E names \in TestTables :
    \E ur \in [DOMAIN names -> AnyRatings] :
      /\ users = names
      /\ searchIndex = BuildIndex(names)
      /\ rngCallers = {}
      /\ call = NoCall
      /\ updateChan = <<>>
      /\ writerRatings = ur
      /\ currentSnapshot = 0
      /\ heap = (0 :> BuildResult(BuilderOf(ur, names)))
      /\ wpc = "select"
      /\ pendingUpdates = FALSE
      /\ ret = "select"
      /\ builder = EmptyBuilder
      /\ newSnap = NoSnap
      /\ readers = [i \in Readers |-> IdleReader]
      /\ batch = EmptyMap

\* a test calls rebuildSnapshot itself on a service without goroutines
\* (TestSearch_LiveRanks)
TestRebuild ==
  /\ wpc = "select"
  /\ RebuildStart("select")
  /\ UNCHANGED <<users, searchIndex, call, rngCallers, updateChan, writerRatings,
                 currentSnapshot, heap, pendingUpdates, newSnap, readers,
                 batch>>

NextRebuild ==
  \/ TestRebuild
  \/ WriterBuildCount
  \/ WriterBuildPrefix
  \/ WriterBuildGroup
  \/ WriterStore

\* a test service whose snapshot is rebuilt again and again from the same
\* working set
SpecRebuild == InitTest /\ [][NextRebuild]_vars

NextTest ==
  \E i \in Readers :
    \/ \E q \in TestQueries : SearchStart(i, q)
    \/ SearchVisit(i)
    \/ \E limit \in TestLimits : LeaderboardCall(i, limit)
    \/ QueryReturn(i)

SpecTest == InitTest /\ [][NextTest]_vars

\* the ids of the posting lists written by hand
ListIds == 3

\* the longest gram list handed to intersectPostingLists
MaxGrams == 3

\* ids in ascending order
Ascending(ids) ==
  [k \in 1..Cardinality(ids) |->
     CHOOSE x \in ids : Cardinality({y \in ids : y < x}) = k - 1]

\* the grams of the hand-written indexes of TestIntersectPostingLists_*
GramPool == {"ab", "bc", "cd"}

\* searchIndex literals: some grams of the pool, each with a list of ids
HandIndexes ==
  UNION {[keys -> {Ascending(ids) : ids \in (SUBSET (1..ListIds)) \ {{}}}] :
           keys \in SUBSET GramPool}

\* gram lists in every order, with repeats and with a gram of no index
GramLists ==
  UNION {[1..n -> GramPool \cup {"xyz"}] : n \in 0..MaxGrams}

\* the arguments of generateNGrams
GramInputs ==
  {"", "a", "ab", "aa", "aaa", "abab", "hello", "abcabc", "abcdefg",
   "aaaaaaa", "user_1"}

\* &LeaderboardService{searchIndex: ...}: a service literal with an index
\* and nothing else
InitCall ==
  \E index \in HandIndexes :
    /\ users = EmptyMap
    /\ searchIndex = index
    /\ rngCallers = {}
    /\ call = NoCall
    /\ updateChan = <<>>
    /\ writerRatings = EmptyMap
    /\ currentSnapshot = NoSnap
    /\ heap = EmptyMap
    /\ wpc = "select"
    /\ pendingUpdates = FALSE
    /\ ret = "select"
    /\ builder = EmptyBuilder
    /\ newSnap = NoSnap
    /\ readers = [i \in Readers |-> IdleReader]
    /\ batch = EmptyMap

\* a test calls service.intersectPostingLists(grams)
CallIntersect ==
  /\ \E grams \in GramLists :
       call' = [fn |-> "intersectPostingLists", arg |-> grams,
                result |-> intersectPostingLists(searchIndex, grams)]
  /\ UNCHANGED <<users, searchIndex, rngCallers, updateChan, writerRatings,
                 currentSnapshot, heap, wpc, pendingUpdates, ret, builder,
                 newSnap, readers, batch>>

\* a test calls generateNGrams(s)
CallGenerateNGrams ==
  /\ \E s \in GramInputs :
       call' = [fn |-> "generateNGrams", arg |-> s,
                result |-> generateNGrams(s)]
  /\ UNCHANGED <<users, searchIndex, rngCallers, updateChan, writerRatings,
                 currentSnapshot, heap, wpc, pendingUpdates, ret, builder,
                 newSnap, readers, batch>>

NextCall == CallIntersect \/ CallGenerateNGrams

\* the functions of the search index called directly, as their tests do
SpecCall == InitCall /\ [][NextCall]_vars

\* ------------------------------------------------------------ properties
\* the snapshots Build has returned: every live one except the one the
\* writer is still filling
Built == {a \in DOMAIN heap : a # newSnap \/ wpc = "store"}

RECURSIVE SumTo(_, _)
SumTo(rc, r) == IF r < 0 THEN 0 ELSE rc[r] + SumTo(rc, r - 1)

\* the sum of RatingCount[r] over the array
SumCount(s) == SumTo(s.RatingCount, MaxRating)

RECURSIVE SumLen(_, _)
SumLen(ubr, keys) ==
  IF keys = {} THEN 0
  ELSE LET k == CHOOSE x \in keys : TRUE
       IN Len(ubr[k]) + SumLen(ubr, keys \ {k})

\* the sum of len(UsersByRating[r]) over the buckets
SumBuckets(s) == SumLen(s.UsersByRating, DOMAIN s.UsersByRating)

\* the ratings of the arrays that hold at least one user
Levels(s) == {r \in RatingIndex : s.RatingCount[r] > 0}

PrefixHigherCorrect(s) ==
  \A r \in RatingIndex :
    s.PrefixHigher[r] = Cardinality({r2 \in Levels(s) : r2 > r})

DenseRanks(s) ==
  \A r \in Levels(s) : GetRank(s, r) = Cardinality({r2 \in Levels(s) : r2 >= r})

CountsAgree(s) ==
  /\ SumCount(s) = TotalUsers(s)
  /\ SumBuckets(s) = TotalUsers(s)

\* every field is what Build computes from the snapshot's own UserRatings
FullyBuilt(s) == s = BuildResult(BuilderOf(s.UserRatings, users))

\* C1: whatever the interleaving of the readers' loads with the writer's
\* rebuilds, the snapshot a reader holds is one that Build has finished
\* (never the one under construction, never a mix of two), and the snapshot
\* invariants hold of it.
C1_ReadersHoldFullyBuiltSnapshots ==
  \A i \in Readers :
    readers[i].pc = "loaded" =>
      /\ readers[i].snap \in Built
      /\ FullyBuilt(heap[readers[i].snap])
      /\ PrefixHigherCorrect(heap[readers[i].snap])
      /\ DenseRanks(heap[readers[i].snap])
      /\ CountsAgree(heap[readers[i].snap])

\* a reader still holds a replaced snapshot while the writer fills the next
C1_Witness ==
  \E i \in Readers :
    /\ readers[i].pc = "loaded"
    /\ readers[i].snap # currentSnapshot
    /\ wpc = "build_group"

\* C2: in every snapshot Build has returned (the first one and those built
\* after any updates), PrefixHigher[r] is the number of distinct ratings
\* r2 > r with RatingCount[r2] > 0, for every r in 0..MaxRating.
C2_PrefixHigherCountsDistinctLevels ==
  \A a \in Built : PrefixHigherCorrect(heap[a])

\* the writer has published a snapshot with one user above the arrays and
\* one in range
C2_Witness ==
  /\ currentSnapshot \in Built
  /\ heap[currentSnapshot].UserRatings[1] = MaxRating + 1
  /\ heap[currentSnapshot].UserRatings[2] = MinRating
  /\ heap[currentSnapshot].PrefixHigher[0] = 1

Current == heap[currentSnapshot]

\* C4: in every snapshot the writer publishes, whatever integers the
\* updates carried, the sum of RatingCount equals the sum of the bucket
\* lengths equals TotalUsers.
C4_PublishedCountsAgree == CountsAgree(Current)

\* C5: the working set and every published snapshot hold only ratings in
\* MinRating..MaxRating, because the writer clamps NewRating.
C5_StoredRatingsInRange ==
  /\ \A u \in DOMAIN writerRatings : writerRatings[u] \in SimRatings
  /\ \A u \in DOMAIN Current.UserRatings :
        Current.UserRatings[u] \in SimRatings
  /\ DOMAIN Current.UsersByRating \subseteq SimRatings

\* the arguments GetRank is tried on
NegativeArgs == (0 - ArgSpan)..(0 - 1)

HighArgs == (MaxRating + 1)..(MaxRating + ArgSpan)

RankArgs == (0 - ArgSpan)..(MaxRating + ArgSpan)

C7_HighRankEqualsRankOfMax ==
  \A a \in Built :
    /\ \A r \in HighArgs : GetRank(heap[a], r) = GetRank(heap[a], MaxRating)
    /\ \A r \in RankArgs : GetRank(heap[a], r) \in Nat \ {0}

\* a snapshot with users at two levels, asked for a rating above the arrays
C7_Witness ==
  \E a \in Built :
    /\ Cardinality(Levels(heap[a])) = 2
    /\ GetRank(heap[a], MaxRating + ArgSpan) = 1
    /\ GetRank(heap[a], MaxRating) = 1

\* C8: no update the writer consumes, a known user's or not, makes the
\* writer fail.
C8_WriterNeverFails == wpc # "panic"

\* C9: last writer wins: the snapshot a rebuild publishes holds, for every
\* user that received updates since the previous publication, the rating
\* of the last one, and for every other user the rating the previous
\* snapshot held.
C9_LastWriterWins ==
  [][(wpc = "store" /\ wpc' # "store") =>
       /\ DOMAIN Current'.UserRatings =
            DOMAIN Current.UserRatings \cup DOMAIN batch
       /\ \A u \in DOMAIN batch : Current'.UserRatings[u] = batch[u].last
       /\ \A u \in DOMAIN Current.UserRatings \ DOMAIN batch :
            Current'.UserRatings[u] = Current.UserRatings[u]]_vars

\* published: user 1 got several updates, the last above the arrays, and
\* user 2 none
C9_Witness ==
  /\ ~pendingUpdates
  /\ wpc = "select"
  /\ DOMAIN batch = {1}
  /\ batch[1].n = 2
  /\ batch[1].last = MaxRating + 1
  /\ Current.UserRatings[1] = MaxRating + 1

\* the last update queued for user u carries rating r
QueuedLast(u, r) ==
  \E i \in DOMAIN updateChan :
    /\ updateChan[i] = [UserID |-> u, NewRating |-> r]
    /\ \A j \in DOMAIN updateChan : j > i => updateChan[j].UserID # u

\* an update for user u is queued behind every update (u, r)
QueuedNewer(u, r) ==
  /\ \E i \in DOMAIN updateChan : updateChan[i].UserID = u
  /\ ~QueuedLast(u, r)

C11_NonBlockingOffer ==
  /\ Len(updateChan) <= UpdateBufferSize
  /\ ENABLED updateSimulator
  /\ Len(updateChan) = UpdateBufferSize =>
       ~ ENABLED (updateSimulator /\
                   <<updateChan, writerRatings, currentSnapshot, heap>>' #
                   <<updateChan, writerRatings, currentSnapshot, heap>>)

\* the channel is full while the writer is busy with a rebuild, and the
\* simulator is about to send
C11_Witness ==
  /\ Len(updateChan) = UpdateBufferSize
  /\ wpc = "build_prefix"
  /\ ENABLED updateSimulator

\* the snapshots that have been stored in the cell and are still referenced
Published == Live(currentSnapshot, readers, NoSnap)

\* C12: a published snapshot is never mutated: no step (a receive into the
\* working set, a step of a later rebuild, a publication, a query) changes
\* UserRatings, RatingCount, PrefixHigher or UsersByRating of a snapshot
\* that was stored in the cell, and the snapshot stays there for as long
\* as the cell or a reader holds it.
C12_PublishedSnapshotsImmutable ==
  /\ [](Published \subseteq DOMAIN heap)
  /\ [][\A a \in Published :
          a \in DOMAIN heap' =>
            /\ heap'[a].UserRatings = heap[a].UserRatings
            /\ heap'[a].RatingCount = heap[a].RatingCount
            /\ heap'[a].PrefixHigher = heap[a].PrefixHigher
            /\ heap'[a].UsersByRating = heap[a].UsersByRating]_vars

\* after a publication with other ratings a reader still holds the
\* snapshot it loaded before
C12_Witness ==
  \E i \in Readers :
    /\ readers[i].pc = "loaded"
    /\ readers[i].snap # currentSnapshot
    /\ wpc = "select"
    /\ ~pendingUpdates
    /\ heap[readers[i].snap].UserRatings # Current.UserRatings

\* the readers that run Search and have loaded a snapshot
Searching == {i \in Readers : readers[i].op = "Search" /\ readers[i].snap # NoSnap}

\* C13: rank stability under search, also under concurrent publication:
\* every hit of one Search call carries the rating its user has in the
\* snapshot S the call loaded at its start and the rank GetRank of S gives
\* for that rating, whatever the writer publishes while the call runs.
C13_SearchHitsFromOneSnapshot ==
  \A i \in Searching :
    /\ readers[i].snap \in DOMAIN heap
    /\ \A k \in DOMAIN readers[i].result :
         LET hit == readers[i].result[k]
             S == heap[readers[i].snap]
         IN /\ hit.ID \in DOMAIN S.UserRatings
            /\ hit.Rating = S.UserRatings[hit.ID]
            /\ hit.Rank = GetRank(S, hit.Rating)

\* a call has returned two hits from a snapshot the writer replaced
\* meanwhile, and the newer snapshot gives one of the users another rank
C13_Witness ==
  \E i \in Searching :
    /\ readers[i].pc = "done"
    /\ Len(readers[i].result) = 2
    /\ readers[i].snap # currentSnapshot
    /\ \E k \in DOMAIN readers[i].result :
         readers[i].result[k].Rank #
           GetRank(Current, Current.UserRatings[readers[i].result[k].ID])

\* the readers whose Search call has its result
SearchDone == {i \in Readers : readers[i].op = "Search" /\ readers[i].pc = "done"}

\* the users of the entries reader i has collected
ResultUsers(i) == {readers[i].result[k].ID : k \in DOMAIN readers[i].result}

\* the users whose lowercased name holds the lowercased q as a contiguous run
Holding(q) ==
  {userID \in DOMAIN users : Contains(ToLower(users[userID]), ToLower(q))}

\* C14: search soundness: for every query, every user a Search call
\* returns has a lowercased username that contains the lowercased query as
\* a contiguous substring; a candidate that only shares the grams is
\* filtered out.
C14_SearchSound ==
  \A i \in Readers :
    readers[i].op = "Search" => ResultUsers(i) \subseteq Holding(readers[i].query)

\* a query longer than MaxGram: the index proposed a user that holds all
\* its grams but not the query, and the call returned without that user
C14_Witness ==
  \E i \in SearchDone :
    /\ Len(readers[i].query) > MaxGram
    /\ ResultUsers(i) # {}
    /\ Candidates(ToLower(readers[i].query)) \ ResultUsers(i) # {}

\* C15: search completeness: for every query of at least MinGram
\* characters, also one longer than MaxGram, every indexed user whose
\* lowercased username contains the lowercased query is returned.
C15_SearchComplete ==
  \A i \in SearchDone :
    Len(readers[i].query) >= MinGram =>
      Holding(readers[i].query) \subseteq ResultUsers(i)

\* a query in capitals, longer than MaxGram, found a user
C15_Witness ==
  \E i \in SearchDone :
    /\ readers[i].query = "AMIT_K"
    /\ ResultUsers(i) = {2}

LetterIndex(c) ==
  IF \E k \in 1..Len(UpperCase) :
       c = SubSeq(UpperCase, k, k) \/ c = SubSeq(LowerCase, k, k)
  THEN CHOOSE k \in 1..Len(UpperCase) :
         c = SubSeq(UpperCase, k, k) \/ c = SubSeq(LowerCase, k, k)
  ELSE 0

\* s and t differ at most in the case of their letters
SameButCase(s, t) ==
  /\ Len(s) = Len(t)
  /\ \A k \in 1..Len(s) :
       \/ SubSeq(s, k, k) = SubSeq(t, k, k)
       \/ /\ LetterIndex(SubSeq(s, k, k)) > 0
          /\ LetterIndex(SubSeq(s, k, k)) = LetterIndex(SubSeq(t, k, k))

\* C18: case insensitivity: on the same snapshot and index, two queries
\* that differ only in letter case return the same set of users, and two
\* users whose names differ only in case are returned together or not at
\* all.
C18_CaseInsensitive ==
  \A i \in SearchDone :
    /\ \A q \in TestQueries :
         SameButCase(readers[i].query, q) => ResultUsers(i) = SearchUsers(q)
    /\ \A u1, u2 \in DOMAIN users :
         SameButCase(users[u1], users[u2]) =>
           (u1 \in ResultUsers(i) <=> u2 \in ResultUsers(i))

\* the query in capitals returned the user written in lowercase and the
\* one written in capitals, as the query in lowercase does
C18_Witness ==
  \E i \in SearchDone :
    /\ readers[i].query = "AM"
    /\ ResultUsers(i) = {1, 2}
    /\ users[1] # users[2]
    /\ SameButCase(users[1], users[2])
    /\ SearchUsers("am") = {1, 2}

\* the readers whose GetLeaderboard call has its result
TopDone ==
  {i \in Readers : readers[i].op = "GetLeaderboard" /\ readers[i].pc = "done"}

\* C19: GetLeaderboard output order: ratings never increase along the
\* result, entries of equal rating come in ascending user id, the rank of
\* every entry is GetRank of its rating on the snapshot the call loaded, so
\* ranks never decrease and a non-empty result starts at rank 1.
C19_LeaderboardOrder ==
  \A i \in TopDone :
    LET r == readers[i].result
        S == heap[readers[i].snap]
    IN /\ \A k \in DOMAIN r :
            /\ r[k].Rank = GetRank(S, r[k].Rating)
            /\ r[k].Rating = S.UserRatings[r[k].ID]
            /\ r[k].Username = users[r[k].ID]
       /\ \A k \in 1..(Len(r) - 1) :
            /\ r[k].Rating >= r[k + 1].Rating
            /\ r[k].Rating = r[k + 1].Rating => r[k].ID < r[k + 1].ID
            /\ r[k].Rank <= r[k + 1].Rank
       /\ r # <<>> => r[1].Rank = 1

\* three entries: two users tied at rank 1 in ascending id, the third at
\* rank 2
C19_Witness ==
  \E i \in TopDone :
    /\ Len(readers[i].result) = 3
    /\ readers[i].result[1].Rating = readers[i].result[2].Rating
    /\ readers[i].result[2].Rank = 1
    /\ readers[i].result[3].Rank = 2

\* the limit GetLeaderboard works with
EffectiveLimit(limit) == IF limit <= 0 THEN DefaultLimit ELSE limit

\* C20: GetLeaderboard limit handling: a limit <= 0 gives the result of
\* the default limit on the same snapshot, and for every limit the result
\* has at most as many entries as the effective limit.
C20_LeaderboardLimit ==
  \A i \in TopDone :
    /\ Len(readers[i].result) <= EffectiveLimit(readers[i].limit)
    /\ readers[i].limit <= 0 =>
         readers[i].result =
           GetLeaderboard(heap[readers[i].snap], DefaultLimit)

\* a negative limit cut a snapshot of three listed users down to the
\* default number of entries
C20_Witness ==
  \E i \in TopDone :
    /\ readers[i].limit < 0
    /\ Len(readers[i].result) = DefaultLimit
    /\ \A userID \in DOMAIN users :
         heap[readers[i].snap].UserRatings[userID] \in SimRatings

\* C21: empty leaderboard: on a snapshot built from zero users GetRank is
\* 1 for every integer rating, GetLeaderboard returns an empty list for
\* every limit and Search returns an empty list for every query.
C21_EmptyLeaderboard ==
  TotalUsers(Current) = 0 =>
    /\ \A r \in RankArgs : GetRank(Current, r) = 1
    /\ \A limit \in TestLimits : GetLeaderboard(Current, limit) = <<>>
    /\ \A q \in TestQueries : SearchUsers(q) = {}
    /\ \A i \in Readers : readers[i].result = <<>>

\* a one-character query has scanned a service without users
C21_Witness ==
  /\ TotalUsers(Current) = 0
  /\ \E i \in SearchDone :
       /\ readers[i].query = "a"
       /\ readers[i].snap = currentSnapshot

\* C22: asking a snapshot for the rating of a user id it does not hold
\* yields a value that no user of the snapshot can have as its rating, the
\* rating 0 included, so absence can be told from every rating.
C22_AbsentRatingDistinguishable ==
  \A a \in Built :
    \A absent \in (1..(BuildUsers + 1)) \ DOMAIN heap[a].UserRatings :
      \A present \in DOMAIN heap[a].UserRatings :
        GetUserRating(heap[a], absent) # GetUserRating(heap[a], present)

\* C23: the working set is writer-private: once the goroutines run, every
\* step that changes writerRatings is a receive of the writer goroutine; no
\* query (GetSnapshot, GetStats, Search, GetLeaderboard) and no producer
\* changes it, and what a query returns comes from its snapshot alone.
C23_WorkingSetWriterPrivate ==
  /\ [][writerRatings' # writerRatings => (WriterRecv \/ WriterDrainRecv)]_vars
  /\ [](\A i \in TopDone :
          readers[i].result =
            GetLeaderboard(heap[readers[i].snap], readers[i].limit))

\* a GetLeaderboard call has returned while the working set was ahead of
\* every snapshot
C23_Witness ==
  \E i \in TopDone :
    /\ wpc = "drain"
    /\ pendingUpdates
    /\ writerRatings # heap[readers[i].snap].UserRatings
    /\ writerRatings # Current.UserRatings

\* C24: no data race: under every interleaving of the readers, the writer
\* and the update simulators, also with several service instances in one
\* process, no memory location other than the atomic cell and the channel
\* is accessed by two goroutines at once with one of them writing; for the
\* generator of package utils: at most one goroutine is inside a call on it.
C24_NoDataRace == Cardinality(rngCallers) <= 1

\* the four indexed fields of two snapshots agree
SameIndexedFields(s, t) ==
  /\ s.UserRatings = t.UserRatings
  /\ s.RatingCount = t.RatingCount
  /\ s.PrefixHigher = t.PrefixHigher
  /\ s.UsersByRating = t.UsersByRating

\* C25: idempotence of repeat publication: a rebuild from the working set
\* the current snapshot was built from yields a snapshot with the same
\* UserRatings, RatingCount, PrefixHigher and UsersByRating (same buckets,
\* same order), whatever order the maps were iterated in.
C25_RebuildIdempotent ==
  (wpc = "store" /\ heap[newSnap].UserRatings = Current.UserRatings) =>
     SameIndexedFields(heap[newSnap], Current)

\* a second rebuild has finished: the snapshot to store and the current
\* one both come from rebuildSnapshot, with two users in one bucket
C25_Witness ==
  /\ wpc = "store"
  /\ currentSnapshot # 0
  /\ heap[newSnap].UserRatings = Current.UserRatings
  /\ \E r \in DOMAIN heap[newSnap].UsersByRating :
       Len(heap[newSnap].UsersByRating[r]) >= 2

\* the writer has consumed exactly one update since the last publication
SingleUpdateConsumed ==
  \E u \in DOMAIN batch : DOMAIN batch = {u} /\ batch[u].n = 1

\* C26: rebuild batching: the rebuild that follows the drain loop without
\* waiting for a tick happens only when the drain pulled at least one
\* update beyond the one the select consumed; after a single update and an
\* empty drain nothing is built before the next tick.
C26_ImmediateRebuildNeedsDrainedUpdate ==
  [][(wpc = "drain" /\ wpc' = "build_count") => ~SingleUpdateConsumed]_vars

\* C27: no spurious publication: the cell changes only in the store of a
\* rebuild started with pendingUpdates set, the flag is set only by a
\* receive from the channel and cleared by the store, and a tick taken
\* with pendingUpdates false starts no rebuild and leaves the cell as it is.
C27_NoSpuriousPublication ==
  /\ [][currentSnapshot' # currentSnapshot =>
          (wpc = "store" /\ pendingUpdates /\ ~pendingUpdates')]_vars
  /\ [][(~pendingUpdates /\ pendingUpdates') =>
          (updateChan # <<>> /\ updateChan' = Tail(updateChan))]_vars
  /\ [][(wpc' = "build_count" /\ wpc # "build_count") => pendingUpdates]_vars
  /\ [][(wpc = "select" /\ ~pendingUpdates /\ updateChan' = updateChan) =>
          (wpc' # "build_count" /\ currentSnapshot' = currentSnapshot)]_vars

\* after a publication the writer has taken a tick with nothing pending
C27_Witness ==
  /\ wpc = "drain"
  /\ ~pendingUpdates
  /\ currentSnapshot # 0
  /\ newSnap = NoSnap

\* C28: for every published snapshot and every limit, GetLeaderboard
\* returns exactly min(effective limit, TotalUsers()) entries.
C28_LeaderboardLength ==
  \A a \in Published : \A limit \in TestLimits :
    Len(GetLeaderboard(heap[a], limit)) =
      IF EffectiveLimit(limit) <= TotalUsers(heap[a])
      THEN EffectiveLimit(limit) ELSE TotalUsers(heap[a])

\* the positions <<rating, index>> of the buckets of a snapshot
Slots(s) ==
  UNION {{<<r, k>> : k \in 1..Len(s.UsersByRating[r])} :
           r \in DOMAIN s.UsersByRating}

\* C29: bucket membership: every id of UserRatings occupies exactly one
\* position of the buckets, in the bucket of its own rating, and every
\* summary of UsersByRating[r] has Rating r.
C29_BucketMembership ==
  \A a \in Built :
    /\ \A id \in DOMAIN heap[a].UserRatings :
         \E p \in Slots(heap[a]) :
           /\ p[1] = heap[a].UserRatings[id]
           /\ {q \in Slots(heap[a]) :
                 heap[a].UsersByRating[q[1]][q[2]].ID = id} = {p}
    /\ \A p \in Slots(heap[a]) :
         /\ heap[a].UsersByRating[p[1]][p[2]].Rating = p[1]
         /\ heap[a].UsersByRating[p[1]][p[2]].ID \in DOMAIN heap[a].UserRatings

\* a built snapshot with two users in one bucket and a user whose rating
\* lies outside the arrays
C29_Witness ==
  \E a \in Built :
    /\ \E r \in DOMAIN heap[a].UsersByRating : Len(heap[a].UsersByRating[r]) = 2
    /\ \E id \in DOMAIN heap[a].UserRatings :
         heap[a].UserRatings[id] \notin RatingIndex

\* C30: every bucket is sorted by strictly ascending user id, whatever
\* order the builder's map was iterated in.
C30_BucketsSortedByID ==
  \A a \in Built : \A r \in DOMAIN heap[a].UsersByRating :
    \A k \in 1..(Len(heap[a].UsersByRating[r]) - 1) :
      heap[a].UsersByRating[r][k].ID < heap[a].UsersByRating[r][k + 1].ID

\* a built snapshot whose users all share one bucket
C30_Witness ==
  \E a \in Built : \E r \in DOMAIN heap[a].UsersByRating :
    Len(heap[a].UsersByRating[r]) = BuildUsers

\* C31: intersectPostingLists(grams) returns exactly the ids present in the
\* posting list of every gram of grams, for every order of the grams and
\* whichever list is the seed; the result is empty when a gram is absent
\* from the index or grams is empty.
C31_IntersectionIsSetAnd ==
  call.fn = "intersectPostingLists" =>
    /\ call.arg = <<>> => call.result = {}
    /\ (\E k \in DOMAIN call.arg : call.arg[k] \notin DOMAIN searchIndex) =>
         call.result = {}
    /\ call.arg # <<>> =>
         call.result =
           {id \in 1..ListIds :
              \A k \in DOMAIN call.arg :
                /\ call.arg[k] \in DOMAIN searchIndex
                /\ \E j \in DOMAIN searchIndex[call.arg[k]] :
                     searchIndex[call.arg[k]][j] = id}

\* three different grams, the shortest list not the first one, and a result
\* that is smaller than every list
C31_Witness ==
  /\ call.fn = "intersectPostingLists"
  /\ Len(call.arg) = 3
  /\ \A i, j \in 1..3 : call.arg[i] = call.arg[j] => i = j
  /\ \A k \in 1..3 : call.arg[k] \in DOMAIN searchIndex
  /\ Len(searchIndex[call.arg[3]]) < Len(searchIndex[call.arg[1]])
  /\ call.result # {}
  /\ \A k \in 1..3 : Cardinality(call.result) < Len(searchIndex[call.arg[k]])

\* C32: generateNGrams(s) returns the distinct contiguous substrings of s
\* of length n, 2 <= n <= min(5, |s|), each exactly once, and the empty
\* list when |s| < 2.
C32_GramsAreTheSubstrings ==
  call.fn = "generateNGrams" =>
    /\ Len(call.arg) < 2 => call.result = <<>>
    /\ {call.result[k] : k \in DOMAIN call.result} =
         UNION {{SubSeq(call.arg, i, i + n - 1) :
                   i \in 1..(Len(call.arg) - n + 1)} :
                  n \in {m \in 2..5 : m <= Len(call.arg)}}
    /\ \A i, j \in DOMAIN call.result :
         call.result[i] = call.result[j] => i = j

\* a string longer than 5 in which a gram occurs twice
C32_Witness ==
  /\ call.fn = "generateNGrams"
  /\ Len(call.arg) > 5
  /\ \E i, j \in 1..(Len(call.arg) - 1) :
       i < j /\ SubSeq(call.arg, i, i + 1) = SubSeq(call.arg, j, j + 1)
  /\ Len(call.result) > 4

\* the ids of the users whose lowercased username contains g
UsersContaining(g) ==
  {id \in DOMAIN users : Contains(ToLower(users[id]), g)}

\* C33: for every gram g of length 2 to 5 the posting list searchIndex[g]
\* holds exactly the ids of the users whose lowercased username contains
\* g, each once, in ascending order; no other gram is a key, and a username
\* shorter than 2 is in no posting list.
C33_PostingListsExact ==
  /\ \A g \in DOMAIN searchIndex : Len(g) >= 2 /\ Len(g) <= 5
  /\ \A g \in DOMAIN searchIndex \cup TestQueries :
       (Len(g) >= 2 /\ Len(g) <= 5) =>
          PostingList(searchIndex, g) = Ascending(UsersContaining(g))
  /\ \A id \in DOMAIN users : Len(users[id]) < 2 =>
       \A g \in DOMAIN searchIndex :
         \A k \in DOMAIN searchIndex[g] : searchIndex[g][k] # id

\* an index with a list of several ids, one of them of a username written
\* in capitals, beside a user whose name is too short to be indexed, after
\* a search has used the index
C33_Witness ==
  /\ \E g \in DOMAIN searchIndex :
       /\ Len(searchIndex[g]) >= 2
       /\ \E k \in DOMAIN searchIndex[g] :
            users[searchIndex[g][k]] # ToLower(users[searchIndex[g][k]])
  /\ \E id \in DOMAIN users : Len(users[id]) < 2
  /\ SearchDone # {}

\* the index holds every gram of every registered name, with the right list
IndexComplete ==
  /\ \A id \in DOMAIN users :
       LET grams == generateNGrams(ToLower(users[id])) IN
         \A k \in DOMAIN grams : grams[k] \in DOMAIN searchIndex
  /\ \A g \in DOMAIN searchIndex :
       searchIndex[g] = Ascending(UsersContaining(g))

\* C34: in the state NewLeaderboardService leaves, before the writer, the
\* simulator or a reader has taken a step, the users map holds every user,
\* the search index is complete and the cell holds a fully built snapshot
\* of all users; afterwards no step of the writer, the simulator or a
\* query changes the users map or the index, and the cell is never empty.
C34_IndexBuiltBeforeUseAndFrozen ==
  /\ DOMAIN users = Users
  /\ IndexComplete
  /\ currentSnapshot # NoSnap
  /\ FullyBuilt(Current)
  /\ [][users' = users /\ searchIndex' = searchIndex]_vars
  /\ [](currentSnapshot # NoSnap /\ DOMAIN Current.UserRatings = DOMAIN users)

\* updates have been consumed and published, and a search on the later
\* snapshot has found a user through the index
C34_Witness ==
  /\ currentSnapshot # 0
  /\ batch # EmptyMap
  /\ \E i \in SearchDone : readers[i].result # <<>>

\* C35: live update: when the snapshot about to be published differs from
\* the current one in that one user's rating is higher and every other
\* user's rating is the same, it reports the new rating for that user and
\* the user's rank in it is less than or equal to the rank in the current
\* snapshot.
C35_RaisedRatingKeepsOrImprovesRank ==
  wpc = "store" =>
    \A u \in DOMAIN writerRatings \cap DOMAIN Current.UserRatings :
      (/\ writerRatings[u] > Current.UserRatings[u]
       /\ \A v \in DOMAIN writerRatings \ {u} :
            /\ v \in DOMAIN Current.UserRatings
            /\ writerRatings[v] = Current.UserRatings[v]) =>
         /\ heap[newSnap].UserRatings[u] = writerRatings[u]
         /\ GetRank(heap[newSnap], heap[newSnap].UserRatings[u]) <=
              GetRank(Current, Current.UserRatings[u])

C37_PopulationFixed ==
  \A a \in Published :
    /\ DOMAIN heap[a].UserRatings = DOMAIN users
    /\ TotalUsers(heap[a]) = InitialUsers
    /\ {heap[a].UsersByRating[p[1]][p[2]].ID : p \in Slots(heap[a])} =
         DOMAIN users
    /\ \A p \in Slots(heap[a]) :
         heap[a].UsersByRating[p[1]][p[2]].Username =
           users[heap[a].UsersByRating[p[1]][p[2]].ID]

\* a later snapshot in which a user's rating has left the range of the
\* initial ratings
C37_Witness ==
  /\ currentSnapshot # 0
  /\ wpc = "select"
  /\ \E u \in DOMAIN Current.UserRatings : Current.UserRatings[u] = MaxRating + 1

\* the GetLeaderboard calls that have loaded their snapshot
Walking ==
  {i \in Readers : readers[i].op = "GetLeaderboard" /\ readers[i].snap # NoSnap}

\* C38: whatever the writer publishes while a GetLeaderboard call runs, the
\* call lists no user twice and every entry it has collected carries the
\* rating and the rank of the one snapshot S loaded at its start; the
\* finished result is the leaderboard of S.
C38_LeaderboardFromOneSnapshot ==
  \A i \in Walking :
    /\ \A j, k \in DOMAIN readers[i].result :
         readers[i].result[j].ID = readers[i].result[k].ID => j = k
    /\ \A k \in DOMAIN readers[i].result :
         /\ readers[i].result[k].Rating =
              heap[readers[i].snap].UserRatings[readers[i].result[k].ID]
         /\ readers[i].result[k].Rank =
              GetRank(heap[readers[i].snap], readers[i].result[k].Rating)
    /\ readers[i].pc = "done" =>
         readers[i].result =
           GetLeaderboard(heap[readers[i].snap], readers[i].limit)

\* a call in the middle of its walk after a publication: a user it has
\* listed has, in the current snapshot, a rating the walk is still to visit
C38_Witness ==
  \E i \in Walking :
    /\ readers[i].pc = "walk"
    /\ readers[i].snap # currentSnapshot
    /\ \E k \in DOMAIN readers[i].result :
         Current.UserRatings[readers[i].result[k].ID] \in readers[i].todo

\* GetRank never increases with the rating, over the ratings of the arrays
RankMonotone(s) ==
  \A r1, r2 \in RatingIndex : r1 >= r2 => GetRank(s, r1) <= GetRank(s, r2)

\* GetRank lies between 1 and one more than the number of distinct ratings
\* held by at least one user
RankBounded(s) ==
  \A r \in RatingIndex :
    /\ GetRank(s, r) >= 1
    /\ GetRank(s, r) <=
         Cardinality({s.UserRatings[u] : u \in DOMAIN s.UserRatings}) + 1

\* two users have the same rank exactly when they have the same rating
SameRankIffSameRating(s) ==
  \A u, v \in DOMAIN s.UserRatings :
    GetRank(s, s.UserRatings[u]) = GetRank(s, s.UserRatings[v]) <=>
      s.UserRatings[u] = s.UserRatings[v]

\* C39: rank is monotone and bounded: in every published snapshot GetRank
\* never increases with the rating over [0, MaxRating], lies between 1 and
\* D + 1 for the D distinct ratings held, and two users have the same rank
\* iff they have the same rating.
C39_RankMonotoneAndBounded ==
  /\ RankMonotone(Current)
  /\ RankBounded(Current)
  /\ SameRankIffSameRating(Current)

====
